---- MODULE Spec2Model ----
(***************************************************************************)
(* Model of maven-checker.py: the recursive, paginated directory walk      *)
(* (find_pom_xml_in_repo), the substring version extractor                 *)
(* (find_version_tags_from_pom), and main's per-repository loop with its   *)
(* thread pool of fetch-and-parse tasks and the CSV report.                *)
(*                                                                         *)
(* Python strings are sequences of tokens; a token is a run of characters  *)
(* that is never split ("pom.xml", "d1", "/", "<", ...), so find, slicing, *)
(* strip, endswith and == are computed on the sequence as Python computes  *)
(* them on the characters.                                                 *)
(***************************************************************************)
EXTENDS Integers, Sequences, FiniteSets, TLC

VARIABLES
    server,     \* the remote side: directory tree and its pagination step
    pc,         \* position of the main thread inside main()
    repo,       \* index of the current iteration of the loop at line 192
    stack,      \* call stack of recursive_search, innermost frame last
    pom_files,  \* the list pom_files of the current repository's walk
    status,     \* per repository: "none", "walking", "ok" or "failed"
    caught,     \* per repository: the exception caught at line 207
    futures,    \* the list futures of line 197
    next_k,     \* index of the future awaited by the loop at line 199
    exc,        \* exception in flight in the main thread, or "none"
    csv_rows,   \* rows written to versions12.csv, header first
    origin,     \* history: for each data row, the task whose result held it
    walklog,    \* history: the requests of every finished recursive_search
    seen,       \* history: the entries the current walk met, in order
    xin,        \* extractor harness: the arguments
    xout        \* extractor harness: the returned value

vars == <<server, pc, repo, stack, pom_files, status, caught, futures,
          next_k, exc, csv_rows, origin, walklog, seen, xin, xout>>

mainvars == <<server, pc, repo, stack, pom_files, status, caught, futures,
              next_k, exc, csv_rows, origin, walklog, seen>>

----------------------------------------------------------------------------
(* Bounds *)

NumRepos == 2          \* repositories of the configured list that are scanned
RecursionLimit == 3    \* frames of recursive_search the interpreter allows
PageSize == 2          \* entries the server puts on one listing page
MaxPieces == 4         \* pieces a harness content string is built from
ExtraFiles == 1        \* files of the wide repository beyond max_workers

----------------------------------------------------------------------------
(* Python strings and values *)

Min(a, b) == IF a < b THEN a ELSE b

RECURSIVE Concat(_)
Concat(ss) == IF ss = <<>> THEN <<>> ELSE Head(ss) \o Concat(Tail(ss))

\* a slice that reads its bounds in either order
Slice_swapped(s, a, b) ==
    LET lo == Min(a, Len(s))
        hi == Min(b, Len(s))
    IN  IF lo >= hi THEN SubSeq(s, hi + 1, lo) ELSE SubSeq(s, lo + 1, hi)

\* s[a:b] for non-negative a, b
Slice(s, a, b) ==
    LET lo == Min(a, Len(s))
        hi == Min(b, Len(s))
    IN  IF lo >= hi THEN <<>> ELSE SubSeq(s, lo + 1, hi)

RECURSIVE FindFrom(_, _, _)
FindFrom(s, sub, i) ==
    IF i + Len(sub) > Len(s) THEN -1
    ELSE IF SubSeq(s, i + 1, i + Len(sub)) = sub THEN i
    ELSE FindFrom(s, sub, i + 1)

\* str.find: lowest 0-based index of sub in s, -1 when absent
find(s, sub) == FindFrom(s, sub, 0)

Whitespace == {" ", "\n"}

RECURSIVE lstrip(_)
lstrip(s) ==
    IF s # <<>> /\ Head(s) \in Whitespace THEN lstrip(Tail(s)) ELSE s

RECURSIVE rstrip(_)
rstrip(s) ==
    IF s # <<>> /\ s[Len(s)] \in Whitespace
    THEN rstrip(SubSeq(s, 1, Len(s) - 1)) ELSE s

\* str.strip()
strip(s) == rstrip(lstrip(s))

endswith(s, suffix) ==
    /\ Len(suffix) <= Len(s)
    /\ SubSeq(s, Len(s) - Len(suffix) + 1, Len(s)) = suffix

\* a str object and the None object, as pom_xml_content can be handed in
PyStr(t) == [isStr |-> TRUE, text |-> t]
PyNone == [isStr |-> FALSE, text |-> <<>>]

\* a dict in insertion order, and the None returned in its place
Dict(items) == [isNone |-> FALSE, items |-> items]
NoneDict == [isNone |-> TRUE, items |-> <<>>]

\* truth value of a returned dict-or-None
Truthy(d) == ~d.isNone /\ d.items # <<>>

Keys(d) == {d.items[i][1] : i \in 1..Len(d.items)}

Lookup(d, k) ==
    LET i == CHOOSE j \in 1..Len(d.items) : d.items[j][1] = k
    IN  d.items[i][2]

\* a dict that puts a new key before the keys it holds
DictSet_front(items, k, v) ==
    IF \E j \in 1..Len(items) : items[j][1] = k
    THEN [j \in 1..Len(items) |->
            IF items[j][1] = k THEN <<k, v>> ELSE items[j]]
    ELSE <<<<k, v>>>> \o items

\* versions[tag] = value
DictSet(items, k, v) ==
    IF \E j \in 1..Len(items) : items[j][1] = k
    THEN [j \in 1..Len(items) |->
            IF items[j][1] = k THEN <<k, v>> ELSE items[j]]
    ELSE Append(items, <<k, v>>)

----------------------------------------------------------------------------
(* find_version_tags_from_pom, lines 140-164 *)

start_tag(tag) == <<"<">> \o tag \o <<">">>
end_tag(tag) == <<"<", "/">> \o tag \o <<">">>

BothFound_or(start_index, end_index) == start_index # -1 \/ end_index # -1

\* line 157
BothFound(start_index, end_index) == start_index # -1 /\ end_index # -1

\* lines 154-155
start_index_of(content, tag) == find(content, start_tag(tag))
end_index_of(content, tag) == find(content, end_tag(tag))

version_value_from_start(content, tag) ==
    strip(Slice(content, start_index_of(content, tag),
                end_index_of(content, tag)))

\* line 158
version_value(content, tag) ==
    strip(Slice(content,
                start_index_of(content, tag) + Len(start_tag(tag)),
                end_index_of(content, tag)))

\* the loop of lines 151-159 over the tags from position i on
RECURSIVE ScanTags(_, _, _, _)
ScanTags(content, tags, i, versions) ==
    IF i > Len(tags) THEN versions
    ELSE LET tag == tags[i]
         IN  IF BothFound(start_index_of(content, tag),
                          end_index_of(content, tag))
             THEN ScanTags(content, tags, i + 1,
                           DictSet(versions, tag, version_value(content, tag)))
             ELSE ScanTags(content, tags, i + 1, versions)

ReturnVersions_empty(versions) == Dict(versions)

\* line 161
ReturnVersions(versions) ==
    IF versions # <<>> THEN Dict(versions) ELSE NoneDict

\* str.find on a non-str raises inside the try; lines 162-164 return None
find_version_tags_from_pom(pom_xml_content, tags) ==
    IF ~pom_xml_content.isStr /\ tags # <<>>
    THEN NoneDict
    ELSE ReturnVersions(ScanTags(pom_xml_content.text, tags, 1, <<>>))

----------------------------------------------------------------------------
(* Configuration of main, lines 167-190 *)

project_keys_and_slugs ==
    << <<"EVT", "attendee-order">>,
       <<"PT", "oss-event-reporting-datasource">>,
       <<"PT", "sms">>,
       <<"API", "universal-appointments">>,
       <<"PT", "public-api">>,
       <<"API", "universal-gamification">>,
       <<"LS", "ls-venue-compsets">>,
       <<"APPT", "appointments-worker">>,
       <<"BT", "bt-test-utils">>,
       <<"APPT", "appointments">>,
       <<"LS", "ls-reports-datasource">>,
       <<"CNF", "conference-es-search">>,
       <<"LS", "ls-adr">>,
       <<"CWITCH", "chime-shared-library">> >>

\* the iterations of the loop at line 192 that the model runs
Repos == 1..Min(NumRepos, Len(project_keys_and_slugs))

\* line 190
version_tags == << <<"mono-java.version">>, <<"postgresql.version">>,
                   <<"mssql.version">>, <<"maven-parent">> >>

header == <<"Project Key", "Repo Slug", "File Path", "Version Tag", "Version">>

max_workers == 10

----------------------------------------------------------------------------
(* The remote server: directory listings and file contents *)

POM == <<"pom.xml">>
ROOT == <<>>
D1 == <<"d1">>

StrEntry(s) == [kind |-> "str", type |-> "", name |-> <<>>, path |-> s]
DirEntry(p) == [kind |-> "dict", type |-> "DIRECTORY", name |-> p, path |-> p]
FileEntry(n, p) == [kind |-> "dict", type |-> "FILE", name |-> n, path |-> p]

Readme == FileEntry(<<"README">>, <<"d1", "/", "README">>)
Backup == FileEntry(<<"pom.xml", ".bak">>, <<"d1", "/", "pom.xml", ".bak">>)
RootPom == FileEntry(POM, <<"pom.xml">>)
SubPom == FileEntry(POM, <<"d1", "/", "pom.xml">>)
DeepPom == FileEntry(POM, <<"d1", "/", "m", "/", "pom.xml">>)

\* a one-page subdirectory on the first page of a two-page root
TreeA == (ROOT :> <<DirEntry(D1), StrEntry(<<"e", "/", "x", "pom.xml">>),
                    StrEntry(<<"pom.xml", ".bak">>)>>)
         @@ (D1 :> <<SubPom, Backup>>)

\* a two-page subdirectory below a one-page root
TreeB == (ROOT :> <<DirEntry(D1)>>)
         @@ (D1 :> <<SubPom, Readme, DeepPom>>)

\* a two-page subdirectory on the first page of a two-page root
TreeC == (ROOT :> <<DirEntry(D1), StrEntry(<<"README">>), RootPom>>)
         @@ (D1 :> <<Readme, Backup, SubPom>>)

\* a two-page subdirectory on the last page of a two-page root
TreeD == (ROOT :> <<RootPom, StrEntry(<<"README">>), DirEntry(D1)>>)
         @@ (D1 :> <<Readme, Backup, SubPom>>)

Trees == {TreeA, TreeB, TreeC, TreeD}

\* overlap = 1: each page repeats the last entry of the page before it
Servers == [tree : Trees, overlap : {0, 1}]

\* the JSON body of a listing of directory url.dir from offset url.start
Listing(srv, url) ==
    LET es == srv.tree[url.dir]
        last == url.start + PageSize >= Len(es)
    IN  [values |-> Slice(es, url.start, url.start + PageSize),
         isLastPage |-> last,
         nextPageStart |-> IF last THEN -1
                           ELSE url.start + PageSize - srv.overlap]

Tag1 == version_tags[1]
Tag2 == version_tags[2]

\* "<t1> 2.1</t1><t2>42</t2>", "</t1><t1>2.1", "<t1>2.1"
ContentBoth ==
    start_tag(Tag1) \o <<" ", "2.1">> \o end_tag(Tag1)
    \o start_tag(Tag2) \o <<"42">> \o end_tag(Tag2)
ContentReversed == end_tag(Tag1) \o start_tag(Tag1) \o <<"2.1">>
ContentOpenOnly == start_tag(Tag1) \o <<"2.1">>

Contents == {ContentBoth, ContentReversed, ContentOpenOnly}

\* what a GET can come back with: a body, or a failure raised by
\* raise_for_status / the transport
HttpError == [ok |-> FALSE, text |-> <<>>]
HttpOk(t) == [ok |-> TRUE, text |-> t]
FetchResponses == {HttpError} \cup {HttpOk(c) : c \in Contents}

----------------------------------------------------------------------------
(* find_pom_xml_in_repo / recursive_search, lines 85-109 *)

Url(dir, start) == [dir |-> dir, start |-> start]

\* line 123: process_repository passes the files URL of the repository
\* root both as api_url and as base_url
api_url == Url(ROOT, 0)

\* line 95: base_url/<path of the directory entry>
subdir_url(file_info) == Url(file_info.path, 0)

next_page_url_start1(url, next_page_start) ==
    Url(api_url.dir, next_page_start + 1)

\* line 106: the URL of the next page
next_page_url(url, next_page_start) == Url(api_url.dir, next_page_start)

\* a call recursive_search(url), about to execute line 89
Frame(url) ==
    [dir |-> url.dir, url |-> url, phase |-> "get", values |-> <<>>,
     isLastPage |-> FALSE, nextPageStart |-> -1, i |-> 1, reqs |-> <<>>]

Top == stack[Len(stack)]

SetTop(f) == [stack EXCEPT ![Len(stack)] = f]

\* 'pom.xml' in file_info instead of file_info.endswith('pom.xml')
Matches_contains(file_info) ==
    \/ file_info.kind = "str"
       /\ \E n \in 1..Len(file_info.path) : file_info.path[n] = "pom.xml"
    \/ file_info.kind = "dict" /\ file_info.type = "FILE"
       /\ file_info.name = POM

\* lines 91-93 and 97-99: does the entry add a path to pom_files
Matches(file_info) ==
    \/ file_info.kind = "str" /\ endswith(file_info.path, POM)
    \/ file_info.kind = "dict" /\ file_info.type = "FILE"
       /\ file_info.name = POM

\* line 94
IsDirectory(file_info) ==
    file_info.kind = "dict" /\ file_info.type = "DIRECTORY"

\* the except clause of line 207 catches Exception and its subclasses
\* HTTPError is raised by raise_for_status at line 72 (files endpoint) or at
\* line 137 (browse endpoint)
Exceptions == {"HTTPError(files)", "HTTPError(browse)", "RecursionError"}

except_Exception_http_only(e) ==
    e \in {"HTTPError(files)", "HTTPError(browse)"}

except_Exception(e) == e \in Exceptions

\* where the main thread continues when e is raised inside the try block
HandlerPc(e) == IF except_Exception(e) THEN "except" ELSE "crashed"

\* a walker that swallows the exception and returns what it has
WalkRaise_partial(e, frames) ==
    /\ stack' = <<>>
    /\ walklog' = walklog \o [j \in 1..Len(frames) |->
                     [dir |-> frames[Len(frames) + 1 - j].dir,
                      reqs |-> frames[Len(frames) + 1 - j].reqs,
                      how |-> "raised"]]
    /\ exc' = "none"
    /\ pc' = "submit"

\* an exception leaves every frame of recursive_search and reaches main
WalkRaise(e, frames) ==
    /\ stack' = <<>>
    /\ walklog' = walklog \o [j \in 1..Len(frames) |->
                     [dir |-> frames[Len(frames) + 1 - j].dir,
                      reqs |-> frames[Len(frames) + 1 - j].reqs,
                      how |-> "raised"]]
    /\ exc' = e
    /\ pc' = HandlerPc(e)

\* line 89: get_repo_data(url), lines 71-73
get_repo_data ==
    /\ pc = "walk" /\ stack # <<>> /\ Top.phase = "get"
    /\ \E ok \in BOOLEAN :
         LET data == Listing(server, Top.url)
             req == [dir |-> Top.url.dir, start |-> Top.url.start, ok |-> ok,
                     isLastPage |-> ok /\ data.isLastPage,
                     nextPageStart |-> IF ok THEN data.nextPageStart ELSE -1]
             f == [Top EXCEPT !.reqs = Append(@, req)]
         IN  IF ok
             THEN /\ stack' = SetTop([f EXCEPT !.phase = "for",
                                               !.values = data.values,
                                               !.isLastPage = data.isLastPage,
                                               !.nextPageStart = data.nextPageStart,
                                               !.i = 1])
                  /\ UNCHANGED <<pc, exc, walklog>>
             ELSE WalkRaise("HTTPError(files)", SetTop(f))
    /\ UNCHANGED <<server, repo, pom_files, status, caught, futures, next_k,
                   csv_rows, origin, seen, xin, xout>>

record_unique(files, path) ==
    IF \E n \in 1..Len(files) : files[n] = path THEN files
    ELSE Append(files, path)

\* lines 93 and 99: pom_files.append
record(files, path) == Append(files, path)

\* lines 90-99: one iteration of the for loop
for_file_info ==
    /\ pc = "walk" /\ stack # <<>> /\ Top.phase = "for"
    /\ Top.i <= Len(Top.values)
    /\ LET file_info == Top.values[Top.i]
       IN  IF IsDirectory(file_info)
           THEN IF Len(stack) >= RecursionLimit
                THEN /\ WalkRaise("RecursionError", stack)
                     /\ UNCHANGED pom_files
                ELSE /\ stack' = Append(stack, Frame(subdir_url(file_info)))
                     /\ UNCHANGED <<pom_files, pc, exc, walklog>>
           ELSE /\ stack' = SetTop([Top EXCEPT !.i = @ + 1])
                /\ pom_files' = IF Matches(file_info)
                                THEN record(pom_files, file_info.path)
                                ELSE pom_files
                /\ UNCHANGED <<pc, exc, walklog>>
    /\ seen' = Append(seen, Top.values[Top.i])
    /\ UNCHANGED <<server, repo, status, caught, futures, next_k,
                   csv_rows, origin, xin, xout>>

\* lines 101-106 and the return of recursive_search; the outermost return is
\* line 109 and line 194
paginate ==
    /\ pc = "walk" /\ stack # <<>> /\ Top.phase = "for"
    /\ Top.i > Len(Top.values)
    /\ IF Top.isLastPage
       THEN /\ walklog' = Append(walklog, [dir |-> Top.dir, reqs |-> Top.reqs,
                                           how |-> "returned"])
            /\ IF Len(stack) = 1
               THEN /\ stack' = <<>>
                    /\ status' = [status EXCEPT ![repo] = "ok"]
                    /\ pc' = "submit"
               ELSE /\ stack' = [SubSeq(stack, 1, Len(stack) - 1) EXCEPT
                                   ![Len(stack) - 1].i = @ + 1]
                    /\ UNCHANGED <<status, pc>>
       ELSE /\ stack' = SetTop([Top EXCEPT
                                  !.url = next_page_url(Top.url, Top.nextPageStart),
                                  !.phase = "get"])
            /\ UNCHANGED <<walklog, status, pc>>
    /\ UNCHANGED <<server, repo, pom_files, caught, futures, next_k, exc,
                   csv_rows, origin, seen, xin, xout>>

----------------------------------------------------------------------------
(* fetch_and_parse_pom, lines 210-217: the task a worker thread runs *)

NoResult == [isNone |-> TRUE, pom_file |-> <<>>, versions |-> NoneDict]
ResultTuple(pom_file, versions) ==
    [isNone |-> FALSE, pom_file |-> pom_file, versions |-> versions]

\* how a task ends: by a return value or by an exception kept in its future;
\* versions is the local of line 213
TaskReturn(v) == [raised |-> FALSE, value |-> v, versions |-> NoneDict]
TaskRaise == [raised |-> TRUE, value |-> NoResult, versions |-> NoneDict]

task_except_reraise == TaskRaise

\* lines 215-217: the task's own handler
task_except == TaskReturn(NoResult)

\* line 214
task_return(pom_file, versions) ==
    IF Truthy(versions) THEN ResultTuple(pom_file, versions) ELSE NoResult

\* resp is what the GET of fetch_file_content (lines 135-138) came back with
fetch_and_parse_pom(pom_file, resp) ==
    IF ~resp.ok
    THEN task_except
    ELSE LET versions == find_version_tags_from_pom(PyStr(resp.text),
                                                    version_tags)
         IN  [raised |-> FALSE,
              value |-> task_return(pom_file, versions),
              versions |-> versions]

NotFetched == [ok |-> FALSE, text |-> <<"not fetched">>]

\* a future: state is "pending" (queued), "running" or "done"
Future(pom_file) ==
    [pom_file |-> pom_file, state |-> "pending", response |-> NotFetched,
     outcome |-> TaskReturn(NoResult)]

Running == {k \in 1..Len(futures) : futures[k].state = "running"}

worker_free_always == TRUE

\* line 196: a queued task is taken only while fewer than max_workers run
worker_free == Cardinality(Running) < max_workers

\* a worker thread takes the oldest queued task
task_start(k) ==
    /\ k \in 1..Len(futures)
    /\ futures[k].state = "pending"
    /\ \A j \in 1..(k - 1) : futures[j].state # "pending"
    /\ worker_free
    /\ futures' = [futures EXCEPT ![k].state = "running"]
    /\ UNCHANGED <<server, pc, repo, stack, pom_files, status, caught,
                   next_k, exc, csv_rows, origin, walklog, seen, xin,
                   xout>>

\* a task that writes its rows to the report itself
task_finish_writes(k, responses) ==
    /\ k \in 1..Len(futures)
    /\ futures[k].state = "running"
    /\ \E resp \in responses :
         LET outcome == fetch_and_parse_pom(futures[k].pom_file, resp)
             items == outcome.value.versions.items
         IN  /\ futures' = [futures EXCEPT
                    ![k] = [state |-> "done",
                            pom_file |-> @.pom_file,
                            response |-> resp,
                            outcome |-> outcome]]
             /\ csv_rows' = csv_rows \o
                    [j \in 1..Len(items) |->
                        <<project_keys_and_slugs[repo][1],
                          project_keys_and_slugs[repo][2],
                          futures[k].pom_file, items[j][1], items[j][2]>>]
             /\ origin' = origin \o [j \in 1..Len(items) |-> <<repo, k>>]
    /\ UNCHANGED <<server, pc, repo, stack, pom_files, status, caught,
                   next_k, exc, walklog, seen, xin, xout>>

\* the GET of the task comes back with one of responses and the task runs to
\* its return
task_finish_from(k, responses) ==
    /\ k \in 1..Len(futures)
    /\ futures[k].state = "running"
    /\ \E resp \in responses :
         futures' = [futures EXCEPT
            ![k] = [state |-> "done",
                    pom_file |-> @.pom_file,
                    response |-> resp,
                    outcome |-> fetch_and_parse_pom(@.pom_file, resp)]]
    /\ UNCHANGED <<server, pc, repo, stack, pom_files, status, caught,
                   next_k, exc, csv_rows, origin, walklog, seen, xin,
                   xout>>

task_finish(k) == task_finish_from(k, FetchResponses)

----------------------------------------------------------------------------
(* main, lines 186-208 *)

\* line 192: the next iteration of the loop starts at line 194
for_repo ==
    /\ pc = "for"
    /\ IF repo < Cardinality(Repos)
       THEN /\ repo' = repo + 1
            /\ status' = [status EXCEPT ![repo + 1] = "walking"]
            /\ stack' = <<Frame(api_url)>>
            /\ pom_files' = <<>>
            /\ futures' = <<>>
            /\ walklog' = <<>>
            /\ seen' = <<>>
            /\ next_k' = 1
            /\ pc' = "walk"
       ELSE /\ pc' = "done"
            /\ UNCHANGED <<repo, status, stack, pom_files, futures, walklog,
                           seen, next_k>>
    /\ UNCHANGED <<server, caught, exc, csv_rows, origin, xin, xout>>

all_submitted_short(files, submitted) == Len(submitted) >= Len(files) - 1

\* line 197: has the comprehension gone through all of pom_files
all_submitted(files, submitted) == Len(submitted) >= Len(files)

\* line 197: one executor.submit of the list comprehension, or its end
submit ==
    /\ pc = "submit"
    /\ IF ~all_submitted(pom_files, futures)
       THEN /\ futures' = Append(futures,
                                 Future(pom_files[Len(futures) + 1]))
            /\ pc' = pc
       ELSE /\ pc' = "result"
            /\ UNCHANGED futures
    /\ UNCHANGED <<server, repo, stack, pom_files, status, caught, next_k,
                   exc, csv_rows, origin, walklog, seen, xin,
                   xout>>

rows_of_twice(r, pom_file, versions) ==
    [j \in 1..(2 * Len(versions.items)) |->
        <<project_keys_and_slugs[r][1], project_keys_and_slugs[r][2],
          pom_file, versions.items[(j + 1) \div 2][1],
          versions.items[(j + 1) \div 2][2]>>]

\* lines 204-205
rows_of(r, pom_file, versions) ==
    [j \in 1..Len(versions.items) |->
        <<project_keys_and_slugs[r][1], project_keys_and_slugs[r][2],
          pom_file, versions.items[j][1], versions.items[j][2]>>]

\* lines 201-203: does the result lead to rows
emits(result) == ~result.isNone /\ Truthy(result.versions)

awaited_reversed(n) == Len(futures) + 1 - n

\* line 199: the n-th iteration of the loop awaits the n-th submitted future
awaited(n) == n

\* lines 199-205: one iteration of the loop over futures
future_result ==
    /\ pc = "result" /\ exc = "none"
    /\ next_k <= Len(futures)
    /\ futures[awaited(next_k)].state = "done"
    /\ LET outcome == futures[awaited(next_k)].outcome
           result == outcome.value
       IN  IF outcome.raised
           THEN /\ exc' = "HTTPError(browse)"
                /\ UNCHANGED <<csv_rows, origin, next_k>>
           ELSE /\ next_k' = next_k + 1
                /\ exc' = exc
                /\ IF emits(result)
                   THEN LET rows == rows_of(repo, result.pom_file,
                                            result.versions)
                        IN  /\ csv_rows' = csv_rows \o rows
                            /\ origin' = origin \o
                                 [j \in 1..Len(rows) |->
                                    <<repo, awaited(next_k)>>]
                   ELSE UNCHANGED <<csv_rows, origin>>
    /\ UNCHANGED <<server, pc, repo, stack, pom_files, status, caught,
                   futures, walklog, seen, xin,
                   xout>>

AllTasksDone == \A k \in 1..Len(futures) : futures[k].state = "done"

\* results never awaited and the pool left without waiting for its tasks
executor_exit_no_wait ==
    /\ pc = "result"
    /\ pc' = IF exc = "none" THEN "for" ELSE HandlerPc(exc)
    /\ UNCHANGED <<server, repo, stack, pom_files, status, caught, futures,
                   next_k, exc, csv_rows, origin, walklog, seen, xin,
                   xout>>

\* the end of the with block of line 196: shutdown(wait=True), then line 206
\* or, with an exception in flight, the handler
executor_exit ==
    /\ pc = "result"
    /\ next_k > Len(futures) \/ exc # "none"
    /\ AllTasksDone
    /\ pc' = IF exc = "none" THEN "for" ELSE HandlerPc(exc)
    /\ UNCHANGED <<server, repo, stack, pom_files, status, caught, futures,
                   next_k, exc, csv_rows, origin, walklog, seen, xin,
                   xout>>

after_except_break == "done"

\* line 208 is the last statement of the loop body
after_except == "for"

\* lines 207-208
except_handler ==
    /\ pc = "except"
    /\ status' = [status EXCEPT ![repo] = "failed"]
    /\ caught' = [caught EXCEPT ![repo] = exc]
    /\ exc' = "none"
    /\ pc' = after_except
    /\ UNCHANGED <<server, repo, stack, pom_files, futures, next_k,
                   csv_rows, origin, walklog, seen, xin,
                   xout>>

----------------------------------------------------------------------------
(* The run of the script *)

NotRun == [ran |-> FALSE, value |-> NoneDict]
IdleInput == [content |-> PyNone, tags |-> <<>>]

InitMain ==
    /\ pc = "for"
    /\ repo = 0
    /\ stack = <<>>
    /\ pom_files = <<>>
    /\ status = [r \in Repos |-> "none"]
    /\ caught = [r \in Repos |-> "none"]
    /\ futures = <<>>
    /\ next_k = 1
    /\ exc = "none"
    /\ csv_rows = <<header>>
    /\ origin = <<>>
    /\ walklog = <<>>
    /\ seen = <<>>

Init ==
    /\ server \in Servers
    /\ InitMain
    /\ xin = IdleInput
    /\ xout = NotRun

Worker == \E k \in 1..Len(futures) : task_start(k) \/ task_finish(k)

Main ==
    \/ for_repo
    \/ get_repo_data
    \/ for_file_info
    \/ paginate
    \/ submit
    \/ future_result
    \/ executor_exit
    \/ except_handler

Next == Main \/ Worker

Spec == Init /\ [][Next]_vars

\* every thread that can take a step is scheduled, and every GET comes back
FairSpec == Spec /\ WF_vars(Main) /\ WF_vars(Worker)

----------------------------------------------------------------------------
(* A repository with more pom.xml files than the pool has workers: the same *)
(* run, against a server whose root lists max_workers + ExtraFiles paths    *)
(* and whose file GETs all come back with the same body                     *)

TreeWide ==
    ROOT :> [n \in 1..(max_workers + ExtraFiles) |->
                StrEntry(<<"m", ToString(n), "/", "pom.xml">>)]

PoolResponses == {HttpOk(ContentReversed)}

InitPool ==
    /\ server = [tree |-> TreeWide, overlap |-> 0]
    /\ InitMain
    /\ xin = IdleInput
    /\ xout = NotRun

WorkerPool ==
    \E k \in 1..Len(futures) : task_start(k) \/ task_finish_from(k, PoolResponses)

NextPool == Main \/ WorkerPool

SpecPool == InitPool /\ [][NextPool]_vars

----------------------------------------------------------------------------
(* The extractor on its own: find_version_tags_from_pom applied to every    *)
(* content built from at most MaxPieces pieces and every short tag list     *)

Pieces == {start_tag(Tag1), end_tag(Tag1), start_tag(Tag2), end_tag(Tag2),
           <<" ">>, <<"7">>}

SeqsUpTo(S, n) == UNION {[1..m -> S] : m \in 0..n}

HarnessContents ==
    {PyNone} \cup {PyStr(Concat(ps)) : ps \in SeqsUpTo(Pieces, MaxPieces)}

HarnessTagLists == SeqsUpTo({Tag1, Tag2}, 2) \cup {version_tags}

InitExtract ==
    /\ server = [tree |-> TreeA, overlap |-> 0]
    /\ InitMain
    /\ xin \in [content : HarnessContents, tags : HarnessTagLists]
    /\ xout = NotRun

extract ==
    /\ ~xout.ran
    /\ xout' = [ran |-> TRUE,
                value |-> find_version_tags_from_pom(xin.content, xin.tags)]
    /\ UNCHANGED <<mainvars, xin>>

NextExtract == extract

SpecExtract == InitExtract /\ [][NextExtract]_vars

----------------------------------------------------------------------------
(* Properties of the walk *)

\* the requests that drain the listing of directory dir, from offset start on
RECURSIVE PagesFrom(_, _)
PagesFrom(dir, start) ==
    LET page == Listing(server, Url(dir, start))
    IN  <<Url(dir, start)>>
        \o (IF page.isLastPage THEN <<>>
            ELSE PagesFrom(dir, page.nextPageStart))

RequestedUrls(reqs) == [k \in 1..Len(reqs) |-> Url(reqs[k].dir, reqs[k].start)]

LoggedSearches == {walklog[n] : n \in 1..Len(walklog)}

LiveSearches ==
    {[dir |-> stack[n].dir, reqs |-> stack[n].reqs, how |-> "live"] :
        n \in 1..Len(stack)}

\* C1: every search of a subdirectory that has returned to its parent's loop
\* requested exactly the pages of that subdirectory's own listing, from its
\* first page to the page whose isLastPage is true.
C1_SubdirectoryDrained ==
    \A x \in LoggedSearches :
        (x.how = "returned" /\ x.dir # ROOT)
            => RequestedUrls(x.reqs) = PagesFrom(x.dir, 0)

\* the page of request k of a search was not the last and has its follow-up
FollowedUp(reqs, k) ==
    /\ k < Len(reqs)
    /\ reqs[k + 1].start = reqs[k].nextPageStart

\* C2 as stated: once the walk is over, every page that came back with
\* isLastPage=false was followed, in the same search, by a request whose
\* start is that page's nextPageStart.
C2_EveryOpenPageFollowedUp ==
    stack = <<>> =>
        \A x \in LoggedSearches : \A k \in 1..Len(x.reqs) :
            (x.reqs[k].ok /\ ~x.reqs[k].isLastPage) => FollowedUp(x.reqs, k)

\* C2 amended: every request after the first of a search follows a page with
\* isLastPage=false and carries that page's nextPageStart; a search that
\* returns has followed up every such page; and while a search is running its
\* caller still stands at the directory entry that started it, so the
\* follow-ups come before the next sibling entry.  Only a search ended by an
\* exception leaves a page without its follow-up.
C2_FollowUpUnlessRaised ==
    /\ \A x \in LoggedSearches \cup LiveSearches :
          \A k \in 1..(Len(x.reqs) - 1) :
              /\ x.reqs[k].ok /\ ~x.reqs[k].isLastPage
              /\ x.reqs[k + 1].start = x.reqs[k].nextPageStart
    /\ \A x \in LoggedSearches :
          x.how = "returned" =>
              /\ x.reqs # <<>>
              /\ x.reqs[Len(x.reqs)].ok /\ x.reqs[Len(x.reqs)].isLastPage
    /\ \A n \in 1..(Len(stack) - 1) :
          /\ stack[n].phase = "for"
          /\ stack[n].i <= Len(stack[n].values)
          /\ IsDirectory(stack[n].values[stack[n].i])
          /\ stack[n].values[stack[n].i].path = stack[n + 1].dir

\* a search returned after asking for a second page
C2_Witness ==
    \E x \in LoggedSearches :
        /\ x.how = "returned"
        /\ Len(x.reqs) >= 2
        /\ x.reqs[2].start = x.reqs[1].nextPageStart

----------------------------------------------------------------------------
(* Properties of the run *)

OpenMarker(tag) == <<"<">> \o tag \o <<">">>
CloseMarker(tag) == <<"<", "/">> \o tag \o <<">">>

\* marker m occupies positions i .. i + Len(m) - 1 of c, counted from 0
OccursAt(c, m, i) ==
    /\ i + Len(m) <= Len(c)
    /\ \A n \in 1..Len(m) : c[i + n] = m[n]

Occurs(c, m) == \E i \in 0..Len(c) : OccursAt(c, m, i)

FirstOcc(c, m) ==
    CHOOSE i \in 0..Len(c) :
        OccursAt(c, m, i) /\ \A j \in 0..(i - 1) : ~OccursAt(c, m, j)

HasBoth(c, tag) == Occurs(c, OpenMarker(tag)) /\ Occurs(c, CloseMarker(tag))

TagSet == {version_tags[n] : n \in 1..Len(version_tags)}

DataRows == Tail(csv_rows)

\* the iteration of repository repo is over
IterationEnded == pc \in {"for", "done"} /\ repo >= 1

Fetched(k) == futures[k].state = "done" /\ futures[k].response # NotFetched

FetchFailed(k) == Fetched(k) /\ ~futures[k].response.ok

\* a row of task k of the current repository for this tag is in the report
RowWritten(k, tag) ==
    \E j \in 1..Len(origin) :
        /\ origin[j] = <<repo, k>>
        /\ SubSeq(DataRows[j], 1, 4) =
              <<project_keys_and_slugs[repo][1],
                project_keys_and_slugs[repo][2], pom_files[k], tag>>

\* every file of pom_files had its task run, and every tag that has both
\* markers in a fetched content has its row
AllFetchedAndWritten ==
    /\ Len(futures) = Len(pom_files)
    /\ \A k \in 1..Len(futures) :
          /\ futures[k].pom_file = pom_files[k]
          /\ Fetched(k)
          /\ \A tag \in TagSet :
                (futures[k].response.ok
                 /\ HasBoth(futures[k].response.text, tag))
                    => RowWritten(k, tag)

\* C3: after a repository whose listing failed, every later repository of
\* the list is walked, and when its walk succeeds its discovered files are
\* fetched and their rows written.
C3_LaterReposScanned ==
    /\ pc = "done" =>
          \A q \in Repos : \A r \in Repos :
              (caught[q] = "HTTPError(files)" /\ q < r)
                  => status[r] \in {"ok", "failed"}
    /\ (/\ IterationEnded
        /\ status[repo] = "ok"
        /\ \E q \in 1..(repo - 1) : caught[q] = "HTTPError(files)")
          => AllFetchedAndWritten

\* the first listing failed, the second repository was scanned and reported
C3_Witness ==
    /\ pc = "done"
    /\ \E q \in Repos : \E r \in Repos :
          /\ q < r
          /\ caught[q] = "HTTPError(files)"
          /\ status[r] = "ok"
          /\ \E j \in 1..Len(origin) : origin[j][1] = r

\* C4: a task whose content fetch fails returns no result and has no row,
\* its failure is never the exception in flight in main nor the one caught
\* at the repository level, and the other tasks of the repository are still
\* fetched, extracted and written.
C4_FetchFailureIsolated ==
    /\ exc # "HTTPError(browse)"
    /\ \A r \in Repos : caught[r] # "HTTPError(browse)"
    /\ \A k \in 1..Len(futures) :
          FetchFailed(k) =>
              /\ ~futures[k].outcome.raised
              /\ futures[k].outcome.value.isNone
              /\ ~\E j \in 1..Len(origin) : origin[j] = <<repo, k>>
    /\ (IterationEnded /\ \E k \in 1..Len(futures) : FetchFailed(k))
          => (status[repo] = "ok" /\ AllFetchedAndWritten)

\* one fetch failed and a sibling task of the same repository has its row
C4_Witness ==
    /\ IterationEnded
    /\ \E k \in 1..Len(futures) : \E n \in 1..Len(futures) :
          /\ FetchFailed(k)
          /\ \E j \in 1..Len(origin) : origin[j] = <<repo, n>>

\* C5: the run always reaches the end of main: every walk ends, every
\* iteration ends, and no exception leaves the loop body uncaught.
C5_RunCompletes == <>(pc = "done") /\ [](pc # "crashed")

\* a run that ended after a RecursionError and a failed listing
C5_Witness ==
    /\ pc = "done"
    /\ \E r \in Repos : caught[r] = "RecursionError"
    /\ \E r \in Repos : caught[r] = "HTTPError(files)"

----------------------------------------------------------------------------
(* Properties of the extracted values and of the report *)

\* v is s without its leading and trailing whitespace
IsTrimOf(v, s) ==
    \E a \in 0..Len(s) : \E b \in a..Len(s) :
        /\ \A n \in 1..a : s[n] \in Whitespace
        /\ \A n \in (b + 1)..Len(s) : s[n] \in Whitespace
        /\ v = [n \in 1..(b - a) |-> s[a + n]]
        /\ v # <<>> => (v[1] \notin Whitespace /\ v[Len(v)] \notin Whitespace)

\* the text from position lo up to, not including, position hi (from 0)
TextBetween(c, lo, hi) ==
    IF hi > lo THEN [n \in 1..(hi - lo) |-> c[lo + n]] ELSE <<>>

\* the text from the end of the first <tag> to the start of the first </tag>
FirstToFirst(c, tag) ==
    TextBetween(c, FirstOcc(c, OpenMarker(tag)) + Len(OpenMarker(tag)),
                FirstOcc(c, CloseMarker(tag)))

\* the data rows written in the current iteration
CurrentRows == {j \in 1..Len(origin) : origin[j][1] = repo}

\* C6 as stated: the content fetched for a row's file holds <tag> and a later
\* </tag> with exactly the row's value, up to surrounding whitespace, between
\* them.
C6_ValueBetweenOrderedMarkers ==
    \A j \in CurrentRows :
        LET f == futures[origin[j][2]]
            c == f.response.text
            tag == DataRows[j][4]
            open == OpenMarker(tag)
        IN  /\ f.response.ok
            /\ DataRows[j][3] = f.pom_file
            /\ \E i \in 0..Len(c) : \E e \in 0..Len(c) :
                  /\ OccursAt(c, open, i)
                  /\ OccursAt(c, CloseMarker(tag), e)
                  /\ e >= i + Len(open)
                  /\ IsTrimOf(DataRows[j][5],
                              TextBetween(c, i + Len(open), e))

\* C6 amended: the content fetched for a row's file holds both <tag> and
\* </tag>, and the row's value is the trimmed text from the end of the first
\* <tag> to the start of the first </tag>, which is empty when that </tag>
\* does not come after the <tag>.
C6_ValueFromFirstMarkers ==
    \A j \in CurrentRows :
        LET f == futures[origin[j][2]]
            c == f.response.text
            tag == DataRows[j][4]
        IN  /\ f.response.ok
            /\ DataRows[j][3] = f.pom_file
            /\ tag \in TagSet
            /\ HasBoth(c, tag)
            /\ IsTrimOf(DataRows[j][5], FirstToFirst(c, tag))

\* a row with an empty value whose content has </tag> before <tag>, next to
\* a row whose value lost its leading blank
C6_Witness ==
    /\ \E j \in CurrentRows :
          LET c == futures[origin[j][2]].response.text
              tag == DataRows[j][4]
          IN  /\ FirstOcc(c, CloseMarker(tag)) < FirstOcc(c, OpenMarker(tag))
              /\ DataRows[j][5] = <<>>
    /\ \E j \in CurrentRows :
          LET c == futures[origin[j][2]].response.text
              tag == DataRows[j][4]
          IN  /\ DataRows[j][5] # <<>>
              /\ DataRows[j][5] # FirstToFirst(c, tag)

\* C7: the extractor records a tag exactly when both of its markers occur in
\* the content, with the trimmed text from the end of the first <tag> to the
\* start of the first </tag> as its value; every other tag of the list is
\* left out, whatever the other tags are; a content that is not a string
\* gives None.
C7_ExtractorContract ==
    xout.ran =>
        LET c == xin.content
            r == xout.value
            asked == {xin.tags[n] : n \in 1..Len(xin.tags)}
        IN  IF c.isStr
            THEN /\ Keys(r) = {tag \in asked : HasBoth(c.text, tag)}
                 /\ \A tag \in Keys(r) :
                       IsTrimOf(Lookup(r, tag), FirstToFirst(c.text, tag))
                 /\ Cardinality(Keys(r)) = Len(r.items)
            ELSE r = NoneDict

\* one tag recorded with a value, another skipped with only its <tag> present
C7_Witness ==
    /\ xout.ran /\ xin.content.isStr
    /\ \E t1 \in Keys(xout.value) :
          /\ Lookup(xout.value, t1) # <<>>
          /\ \E n \in 1..Len(xin.tags) :
                /\ xin.tags[n] \notin Keys(xout.value)
                /\ Occurs(xin.content.text, OpenMarker(xin.tags[n]))

\* the content of task k was fetched and no tag has both markers in it
NothingFound(k) ==
    /\ Fetched(k) /\ futures[k].response.ok
    /\ \A tag \in TagSet : ~HasBoth(futures[k].response.text, tag)

\* C8: when no tag has both markers in a fetched content the extractor
\* returns None, not an empty dict; the task returns no result, nothing is
\* written for it, no exception is in flight while results are collected,
\* and the other files of the repository are fetched and written.
C8_NothingFoundIsNoRows ==
    /\ \A k \in 1..Len(futures) :
          NothingFound(k) =>
              /\ futures[k].outcome.versions = NoneDict
              /\ ~futures[k].outcome.raised
              /\ futures[k].outcome.value.isNone
              /\ ~\E j \in 1..Len(origin) : origin[j] = <<repo, k>>
    /\ pc = "result" => exc = "none"
    /\ (IterationEnded /\ \E k \in 1..Len(futures) : NothingFound(k))
          => (status[repo] = "ok" /\ AllFetchedAndWritten)

\* a file with nothing found next to a file of the same repository with a row
C8_Witness ==
    /\ IterationEnded
    /\ \E k \in 1..Len(futures) : \E n \in 1..Len(futures) :
          /\ NothingFound(k)
          /\ \E j \in 1..Len(origin) : origin[j] = <<repo, n>>

RowKey(j) == SubSeq(DataRows[j], 1, 4)

\* C9 as stated: no two data rows share project key, repo slug, file path
\* and tag.
C9_OneRowPerFileAndTag ==
    \A i \in 1..Len(origin) : \A j \in 1..Len(origin) :
        i # j => RowKey(i) # RowKey(j)

\* C9 amended: a task writes at most one row per tag; two rows with the same
\* project key, repo slug, file path and tag come from two tasks of the same
\* repository, whose path the walker recorded twice.
C9_OneRowPerTaskAndTag ==
    \A i \in 1..Len(origin) : \A j \in 1..Len(origin) :
        (i # j /\ RowKey(i) = RowKey(j)) =>
            /\ origin[i][1] = origin[j][1]
            /\ origin[i][2] # origin[j][2]
            /\ origin[i][1] = repo =>
                  pom_files[origin[i][2]] = pom_files[origin[j][2]]

\* two rows for the same file and tag, on a server whose pages overlap and
\* whose subdirectories all fit on one page
C9_Witness ==
    /\ server.overlap = 1
    /\ \A d \in DOMAIN server.tree :
          d # ROOT => Len(server.tree[d]) <= PageSize
    /\ \E i \in 1..Len(origin) : \E j \in 1..Len(origin) :
          i # j /\ RowKey(i) = RowKey(j)

\* every path of pom_files has a task that ran its fetch
AllAttempted ==
    /\ Len(futures) = Len(pom_files)
    /\ \A k \in 1..Len(pom_files) :
          futures[k].pom_file = pom_files[k] /\ Fetched(k)

\* C10 as stated: when the iteration of a repository is over, every path its
\* walk recorded has been attempted.
C10_EveryRecordedPathAttempted == IterationEnded => AllAttempted

\* C10 amended: every path of the list returned by a walk has been attempted
\* when the iteration is over; the paths recorded by a walk that ended with
\* an exception get no task.
C10_EveryReturnedPathAttempted ==
    /\ (IterationEnded /\ status[repo] = "ok") => AllAttempted
    /\ (repo >= 1 /\ status[repo] # "ok") => futures = <<>>

\* a walk returned two paths or more and all of them were attempted
C10_Witness ==
    /\ IterationEnded /\ status[repo] = "ok"
    /\ Len(pom_files) >= 2
    /\ AllAttempted

----------------------------------------------------------------------------
(* Properties of the worker pool and of the order of the run *)

Pending == {k \in 1..Len(futures) : futures[k].state = "pending"}

\* C11: never more than 10 tasks run at once; a repository with more files
\* than that has the surplus tasks queued, and all of them have run when its
\* iteration is over.
C11_AtMostTenRunning ==
    /\ Cardinality(Running) <= 10
    /\ \A k \in Pending : \A j \in 1..Len(futures) :
          futures[j].state = "running" => j < k
    /\ (IterationEnded /\ status[repo] = "ok") => AllAttempted

\* ten tasks run and the eleventh is queued
C11_Witness ==
    /\ Cardinality(Running) = 10
    /\ Len(futures) > 10
    /\ Pending # {}

\* C12: tasks exist only between the submission and the end of the with
\* block of one repository: while the loop is at its head, in a walk, in the
\* handler or past its end no task is queued or running, and every task in
\* flight is a task for a path of the current repository's walk.
C12_OneRepositoryAtATime ==
    /\ pc \in {"for", "walk", "except", "done", "crashed"} =>
          Running = {} /\ Pending = {}
    /\ stack # <<>> => futures = <<>>
    /\ \A k \in 1..Len(futures) :
          /\ k <= Len(pom_files)
          /\ futures[k].pom_file = pom_files[k]

\* the second repository is being listed after the first one's tasks ran and
\* had their rows written
C12_Witness ==
    /\ repo >= 2 /\ pc = "walk"
    /\ stack # <<>> /\ Top.reqs # <<>>
    /\ \E j \in 1..Len(origin) : origin[j][1] = repo - 1

\* C13: no result is awaited before every file of pom_files has its task;
\* results are consumed in submission order, so a row of task k is written
\* only when tasks 1..k-1 are done and consumed; and while the loop waits for
\* a task, every other running task can still finish and the oldest queued
\* task can still start.
C13_SubmitAllThenAwaitInOrder ==
    /\ pc = "submit" => (next_k = 1 /\ CurrentRows = {})
    /\ pc = "result" => Len(futures) = Len(pom_files)
    /\ \A j \in CurrentRows :
          /\ origin[j][2] < next_k
          /\ \A i \in 1..origin[j][2] : futures[i].state = "done"
    /\ \A a \in CurrentRows : \A b \in CurrentRows :
          a < b => origin[a][2] <= origin[b][2]
    /\ (pc = "result" /\ next_k <= Len(futures)
        /\ futures[next_k].state # "done") =>
          /\ \A j \in Running : ENABLED task_finish(j)
          /\ \A j \in Pending :
                (worker_free /\ \A i \in 1..(j - 1) : i \notin Pending)
                    => ENABLED task_start(j)

\* the loop waits for the first task while the second, already done with a
\* result that holds tags, is not consumed
C13_Witness ==
    /\ pc = "result" /\ next_k = 1
    /\ Len(futures) >= 2
    /\ futures[1].state = "running"
    /\ futures[2].state = "done"
    /\ emits(futures[2].outcome.value)
    /\ CurrentRows = {}

\* C14: the report changes only in a step of the main thread at the result
\* loop, in which no task changes; the rows added are the rows of one task,
\* the one the loop awaits, and that task is done.
C14_OnlyMainWrites ==
    [][csv_rows' # csv_rows =>
          /\ pc = "result" /\ pc' = "result"
          /\ futures' = futures
          /\ next_k <= Len(futures)
          /\ futures[next_k].state = "done"
          /\ next_k' = next_k + 1
          /\ Len(csv_rows') > Len(csv_rows)
          /\ SubSeq(csv_rows', 1, Len(csv_rows)) = csv_rows
          /\ SubSeq(origin', 1, Len(origin)) = origin
          /\ \A j \in (Len(origin) + 1)..Len(origin') :
                origin'[j] = <<repo, next_k>>]_vars

\* the loop has just written the rows of the task it awaited, while a later
\* task is still running
C14_Witness ==
    /\ pc = "result" /\ next_k > 1
    /\ \E j \in CurrentRows : origin[j][2] = next_k - 1
    /\ Running # {}

----------------------------------------------------------------------------
(* Properties of the list of discovered paths *)

\* a FILE entry named pom.xml, or a plain string whose last characters are
\* pom.xml
Qualifies(e) ==
    \/ /\ e.kind = "dict" /\ e.type = "FILE"
       /\ e.name = <<"pom.xml">>
    \/ /\ e.kind = "str"
       /\ Len(e.path) >= 1 /\ e.path[Len(e.path)] = "pom.xml"

QualifyingSeen == {m \in 1..Len(seen) : Qualifies(seen[m])}

\* C15: every path of pom_files is the path of a FILE entry named pom.xml or
\* a plain string ending with pom.xml that the walk met, and the walk
\* recorded nothing for any other entry it met.
C15_OnlyPomEntries ==
    /\ \A n \in 1..Len(pom_files) :
          \E m \in QualifyingSeen : seen[m].path = pom_files[n]
    /\ Len(pom_files) = Cardinality(QualifyingSeen)

\* a walk that returned paths after meeting a directory, a FILE entry with
\* another name and a string with another ending
C15_Witness ==
    /\ repo >= 1 /\ status[repo] = "ok" /\ pom_files # <<>>
    /\ \E m \in 1..Len(seen) : seen[m].type = "DIRECTORY"
    /\ \E m \in 1..Len(seen) :
          seen[m].type = "FILE" /\ ~Qualifies(seen[m])
    /\ \E m \in 1..Len(seen) :
          seen[m].kind = "str" /\ ~Qualifies(seen[m])
    /\ \E m \in QualifyingSeen : seen[m].kind = "str"

----------------------------------------------------------------------------
(* Properties of the extractor inside the run *)

\* both markers of tag occur in c and the first </tag> starts before the
\* first <tag>
ClosesFirst(c, tag) ==
    /\ HasBoth(c, tag)
    /\ FirstOcc(c, CloseMarker(tag)) < FirstOcc(c, OpenMarker(tag))

\* C16: for a fetched content whose first </tag> precedes its first <tag>,
\* the extractor records the tag with the empty string, without an error,
\* and once the loop has consumed the task the report has a row for the tag
\* with an empty Version.
C16_ReversedMarkersGiveEmpty ==
    \A k \in 1..Len(futures) : \A tag \in TagSet :
        (/\ Fetched(k) /\ futures[k].response.ok
         /\ ClosesFirst(futures[k].response.text, tag)) =>
            /\ ~futures[k].outcome.raised
            /\ ~futures[k].outcome.versions.isNone
            /\ tag \in Keys(futures[k].outcome.versions)
            /\ Lookup(futures[k].outcome.versions, tag) = <<>>
            /\ k < next_k =>
                  \E j \in CurrentRows :
                      /\ origin[j] = <<repo, k>>
                      /\ DataRows[j] =
                            <<project_keys_and_slugs[repo][1],
                              project_keys_and_slugs[repo][2],
                              pom_files[k], tag, <<>> >>

\* a consumed task whose content has the closing marker first
C16_Witness ==
    \E k \in 1..Len(futures) : \E tag \in TagSet :
        /\ k < next_k
        /\ Fetched(k) /\ futures[k].response.ok
        /\ ClosesFirst(futures[k].response.text, tag)
        /\ \E j \in CurrentRows : origin[j] = <<repo, k>> /\ DataRows[j][4] = tag

----------------------------------------------------------------------------
(* Properties of the order of the list of discovered paths *)

\* the calls of recursive_search a walk that returns can nest
WalkBudget == RecursionLimit * (PageSize + 1)

Unfinished == << <<"...">> >>

RECURSIVE DepthFirst(_, _), DepthFirstFrom(_, _, _, _)

\* the paths a depth-first walk of the pages served from url meets, in the
\* order it meets them: the matches of the page in page order, the whole
\* subtree of a directory in the place of the directory, then the next page
DepthFirst(url, budget) ==
    IF budget = 0 THEN Unfinished
    ELSE LET data == Listing(server, url)
         IN  DepthFirstFrom(data.values, 1, url, budget)
             \o (IF data.isLastPage THEN <<>>
                 ELSE DepthFirst(next_page_url(url, data.nextPageStart),
                                 budget - 1))

DepthFirstFrom(values, i, url, budget) ==
    IF i > Len(values) THEN <<>>
    ELSE (IF IsDirectory(values[i])
          THEN DepthFirst(subdir_url(values[i]), budget - 1)
          ELSE IF Matches(values[i]) THEN <<values[i].path>> ELSE <<>>)
         \o DepthFirstFrom(values, i + 1, url, budget)

\* the paths of the qualifying entries met so far, one per encounter
PathsSeen ==
    LET q == SelectSeq(seen, Qualifies)
    IN  [n \in 1..Len(q) |-> q[n].path]

\* C17: the list holds each matching entry once per encounter, in encounter
\* order; the list a walk returns is the depth-first order of the served
\* pages, repeated paths included; and each occurrence has its own task.
C17_EncounterOrderKept ==
    /\ repo >= 1 => pom_files = PathsSeen
    /\ (repo >= 1 /\ status[repo] = "ok") =>
          pom_files = DepthFirst(api_url, WalkBudget)
    /\ (IterationEnded /\ status[repo] = "ok") =>
          /\ Len(futures) = Len(pom_files)
          /\ \A k \in 1..Len(futures) : futures[k].pom_file = pom_files[k]

\* a walk returned a path of a subdirectory followed by a path met twice,
\* and the three have their tasks
C17_Witness ==
    /\ IterationEnded /\ status[repo] = "ok"
    /\ Len(futures) = Len(pom_files)
    /\ \E n \in 1..Len(pom_files) : \E a \in 1..Len(pom_files) :
       \E b \in 1..Len(pom_files) :
          /\ n < a /\ a < b
          /\ pom_files[n] = SubPom.path
          /\ pom_files[a] = pom_files[b]
          /\ futures[a].pom_file = futures[b].pom_file

----------------------------------------------------------------------------
(* Properties of a walk that fails *)

\* a listing request of the walk of repository r failed
ListingFailed(r) ==
    \/ caught[r] = "HTTPError(files)"
    \/ /\ r = repo
       /\ \E n \in 1..Len(walklog) : \E m \in 1..Len(walklog[n].reqs) :
             ~walklog[n].reqs[m].ok

\* C18: a repository whose walk had a failing listing request gets no fetch
\* task and no row, whatever paths the walk had recorded before the failure;
\* the report holds the header and the rows of the other repositories only.
C18_FailedWalkLeavesReportAlone ==
    /\ Len(csv_rows) = 1 + Len(origin)
    /\ csv_rows[1] = header
    /\ \A r \in 1..repo :
          ListingFailed(r) =>
              /\ \A j \in 1..Len(origin) : origin[j][1] # r
              /\ r = repo => futures = <<>> /\ next_k = 1

\* the walk of the second repository failed on a listing after it had
\* recorded a path, and the report holds the rows of the first repository
C18_Witness ==
    /\ IterationEnded /\ repo = 2
    /\ caught[repo] = "HTTPError(files)"
    /\ pom_files # <<>>
    /\ futures = <<>>
    /\ origin # <<>>
    /\ \A j \in 1..Len(origin) : origin[j][1] = 1

----------------------------------------------------------------------------
(* The report as a function of what the server answered *)

\* the rows a fetched file leads to: its tags that have both markers, in the
\* order of the tag list
RowsFor(r, pom_file, response) ==
    IF ~response.ok THEN <<>>
    ELSE LET c == response.text
             tags == SelectSeq(version_tags, LAMBDA t : HasBoth(c, t))
         IN  [n \in 1..Len(tags) |->
                <<project_keys_and_slugs[r][1], project_keys_and_slugs[r][2],
                  pom_file, tags[n],
                  strip(Slice(c, FirstOcc(c, OpenMarker(tags[n]))
                                    + Len(OpenMarker(tags[n])),
                              FirstOcc(c, CloseMarker(tags[n]))))>>]

\* the rows of the first k files of the list of the current repository, in
\* the order of the list
RECURSIVE RowsUpTo(_)
RowsUpTo(k) ==
    IF k = 0 THEN <<>>
    ELSE RowsUpTo(k - 1) \o RowsFor(repo, pom_files[k], futures[k].response)

\* the rows at the end of the report that the current repository wrote
CurrentReport ==
    LET n == Cardinality(CurrentRows)
    IN  SubSeq(DataRows, Len(DataRows) - n + 1, Len(DataRows))

\* C19: the rows of the report depend on the answers of the server and on
\* nothing else. Whatever order the tasks started and finished in, the rows
\* of a repository are the rows of the files the loop has consumed, files in
\* the order of the list, tags in the order of the tag list, each row a
\* function of the answer its file got; when the iteration is over every
\* file is consumed; and the repositories come in the order of the
\* configured list.
C19_ReportDependsOnAnswersOnly ==
    /\ \A a \in 1..Len(origin) : \A b \in 1..Len(origin) :
          a < b => origin[a][1] <= origin[b][1]
    /\ \A j \in 1..Len(origin) :
          /\ origin[j][1] \in 1..repo
          /\ DataRows[j][1] = project_keys_and_slugs[origin[j][1]][1]
          /\ DataRows[j][2] = project_keys_and_slugs[origin[j][1]][2]
    /\ repo >= 1 =>
          /\ next_k - 1 <= Len(futures)
          /\ CurrentReport = RowsUpTo(next_k - 1)
    /\ (IterationEnded /\ status[repo] = "ok") =>
          next_k - 1 = Len(pom_files)

\* the third task finished before the second, and the report holds the two
\* rows of the first file, the two tags in the order of the tag list
C19_Witness ==
    /\ pc = "result" /\ next_k = 2
    /\ Len(futures) >= 3
    /\ futures[2].state = "running"
    /\ futures[3].state = "done" /\ emits(futures[3].outcome.value)
    /\ Len(CurrentReport) = 2
    /\ CurrentReport[1][4] = Tag1
    /\ CurrentReport[2][4] = Tag2

====
